---- MODULE Spec2Model ----
(***************************************************************************)
(* Voice pipeline of src/backend: the audio client (client.py) that        *)
(* segments microphone frames into utterances and exchanges them over a    *)
(* websocket, and the audio server (server.py) that runs                   *)
(* transcription -> reply generation -> speech synthesis per message.      *)
(*                                                                         *)
(* Time is counted in tenths of a second.  Samples are signed 16-bit       *)
(* integers; a frame is a short sequence of samples.  Texts are sequences  *)
(* of character codes (32 is the space).                                   *)
(***************************************************************************)
EXTENDS Integers, Sequences, FiniteSets, TLC

\* ------------------------------------------------------------------ bounds
MaxTime == 26
MaxFrames == 2
MaxReads == 5
MaxUtterances == 2
MaxSessions == 2
MaxMsgs == 3
MaxHistory == 6
MaxChunks == 3

\* ------------------------------------------------- program constants, client
SILENCE_THRESHOLD == 1500
SILENCE_DURATION == 8
CHANNELS == 1
RATE == 16000
SAMPLE_WIDTH == 2
INT16_MIN == -32768
CHUNK_SIZE == 1024

\* ------------------------------------------------- program constants, server
CONTEXT_TURNS == 4

\* Connection slots of the server.
Conns == {1, 2}

\* ----------------------------------------------------------------- inputs
\* Frames the microphone can deliver (FrameLen samples each).
QuietFrame == <<1499, -1499>>
LoudFrameA == <<1500, 0>>
LoudFrameB == <<100, -3000>>
MinFrame == <<INT16_MIN, 0>>
NoFrame == <<>>
FrameSet == {QuietFrame, LoudFrameA, LoudFrameB, MinFrame}

\* Amounts by which the wall clock can advance between two observations.
Elapsed == {4, 5}

\* Reply payloads the peer can send back.
ReplySet == {"mp3"}

VARIABLES
    \* ---- client.py, AudioClient
    frames,             \* self.frames
    is_recording,       \* self.is_recording
    last_sound_time,    \* self.last_sound_time
    recording_started,  \* local of process_audio
    data,               \* local of process_audio: the frame last read
    cpc,                \* where the client coroutine stands
    ws,                 \* the client's websocket: "none", "open", "closed"
    net_out,            \* messages sent by the client, not yet taken by the peer
    net_in,             \* replies of the peer, not yet received by the client
    clock,              \* time.time()
    mic_pos,            \* frames read from the input stream of this process_audio
    sent_n,             \* utterances sent on the current connection
    done_n,             \* receives completed (reply or failure) on the current connection
    run,                \* non-silent frames read in this process_audio since the last emission
    heard_sound,        \* a frame with peak magnitude >= SILENCE_THRESHOLD has been read
    read_failed,        \* the last stream.read of the client raised
    \* ---- server.py, AudioServer
    conversation_history, \* self.conversation_history
    sconn,              \* per connection slot: the session being served, 0 when none
    next_sid,           \* connections accepted so far
    msgs_n,             \* messages received by the server so far
    peer_open,          \* per connection slot: the peer has not closed
    inbox,              \* per connection slot: messages received, not yet handled
    handled,            \* per connection slot: messages handled in the session
    ok_n,               \* per connection slot: of those, transcribed and answered non-empty
    outbox,             \* per connection slot: replies sent in the session
    cycle,              \* what the last handled message went through
    \* ---- client.py, AudioClient.play_audio
    play_pc,            \* where play_audio stands
    audio_in,           \* its argument audio_data
    play_i,             \* the loop index i
    written,            \* samples written to the output stream
    out_stream,         \* the local `stream`: "unbound", "open", "stopped", "closed"
    play_error          \* what the except clause caught: "none", "decode", "open", "write"

clientVars == <<frames, is_recording, last_sound_time, recording_started, data, cpc,
                ws, net_out, net_in, clock, mic_pos, sent_n, done_n, run, heard_sound,
                read_failed>>

serverVars == <<conversation_history, sconn, next_sid, msgs_n, peer_open, inbox, handled,
                ok_n, outbox, cycle>>

playVars == <<play_pc, audio_in, play_i, written, out_stream, play_error>>

vars == <<clientVars, serverVars, playVars>>

\* ---------------------------------------------------------------- helpers
Max(a, b) == IF a >= b THEN a ELSE b

Abs(x) == IF x < 0 THEN -x ELSE x

\* np.abs on dtype int16: the magnitude of -32768 wraps back to -32768.
AbsInt16(x) == IF x = INT16_MIN THEN INT16_MIN ELSE Abs(x)

RECURSIVE SeqMax(_)
SeqMax(s) == IF Len(s) = 1 THEN s[1] ELSE Max(s[1], SeqMax(Tail(s)))

\* The peak magnitude of a frame as a real number would have it.
TruePeak(f) == SeqMax([i \in 1..Len(f) |-> Abs(f[i])])

\* Off by one: a peak of SILENCE_THRESHOLD - 1 no longer counts as silence.
BelowThresholdOffByOne(peak) == peak + 1 < SILENCE_THRESHOLD

\* The code's comparison of the peak with the threshold.
BelowThreshold(peak) == peak < SILENCE_THRESHOLD

\* AudioClient.is_silent: np.max of an empty array raises, and the except
\* branch answers True.
is_silent(f) ==
    IF Len(f) = 0 THEN TRUE
    ELSE BelowThreshold(SeqMax([i \in 1..Len(f) |-> AbsInt16(f[i])]))

RECURSIVE Join(_)
Join(fs) == IF fs = <<>> THEN <<>> ELSE Head(fs) \o Join(Tail(fs))

\* AudioClient.create_wav_buffer: header fields and the joined sample data.
create_wav_buffer(audio_data) ==
    [nchannels |-> CHANNELS, sampwidth |-> SAMPLE_WIDTH, framerate |-> RATE,
     data |-> Join(audio_data)]

\* --------------------------------------------------------------- client
ClientInit ==
    /\ frames = <<>>
    /\ is_recording = FALSE
    /\ last_sound_time = 0
    /\ recording_started = FALSE
    /\ data = NoFrame
    /\ cpc = "connect"
    /\ ws = "none"
    /\ net_out = <<>>
    /\ net_in = <<>>
    /\ clock = 0
    /\ mic_pos = 0
    /\ sent_n = 0
    /\ done_n = 0
    /\ run = <<>>
    /\ heard_sound = FALSE
    /\ read_failed = FALSE

\* time.time() moves on.
Tick ==
    /\ \E d \in Elapsed :
        /\ clock + d <= MaxTime
        /\ clock' = clock + d
    /\ UNCHANGED <<frames, is_recording, last_sound_time, recording_started, data, cpc,
                   ws, net_out, net_in, mic_pos, sent_n, done_n, run, heard_sound, read_failed>>
    /\ UNCHANGED <<serverVars, playVars>>

\* connect_websocket, one turn of `while True` up to the first read of
\* process_audio: websockets.connect, then p.open of the input stream and
\* the two flag assignments.  A failed connect or a failed p.open raises
\* into connect_websocket's handlers, which sleep.
ClientConnect ==
    /\ cpc = "connect"
    /\ \E ok \in BOOLEAN, opened \in BOOLEAN :
        IF ok /\ opened
        THEN /\ ws' = "open"
             /\ is_recording' = TRUE
             /\ recording_started' = FALSE
             /\ cpc' = "read"
        ELSE /\ ws' = "none"
             /\ UNCHANGED <<is_recording, recording_started>>
             /\ cpc' = "backoff"
    /\ net_out' = <<>>
    /\ net_in' = <<>>
    /\ mic_pos' = 0
    /\ sent_n' = 0
    /\ done_n' = 0
    /\ run' = <<>>
    /\ read_failed' = FALSE
    /\ UNCHANGED <<frames, last_sound_time, data, clock, heard_sound>>
    /\ UNCHANGED <<serverVars, playVars>>

\* A handler that returns instead of looping: the client stops for good.
ClientBackoffGivesUp ==
    /\ cpc = "backoff"
    /\ cpc' = "stopped"
    /\ UNCHANGED <<frames, is_recording, last_sound_time, recording_started, data,
                   ws, net_out, net_in, clock, mic_pos, sent_n, done_n, run, heard_sound,
                   read_failed>>
    /\ UNCHANGED <<serverVars, playVars>>

\* await asyncio.sleep(1) in the handlers of connect_websocket.
ClientBackoff ==
    /\ cpc = "backoff"
    /\ cpc' = "connect"
    /\ UNCHANGED <<frames, is_recording, last_sound_time, recording_started, data,
                   ws, net_out, net_in, clock, mic_pos, sent_n, done_n, run, heard_sound, read_failed>>
    /\ UNCHANGED <<serverVars, playVars>>

\* A capture that runs beside the network wait.
CanReadInBackground == cpc \in {"read", "recv"}

\* The coroutine reads the microphone only at the top of its loop.
CanRead == cpc = "read"

\* Sending without waiting for the reply.
AfterSendNoWait == "read"

\* After websocket.send the coroutine awaits websocket.recv.
AfterSend == "recv"

\* Emitting as soon as the gap reaches SILENCE_DURATION.
ShouldEmitAtGap(now) ==
    /\ frames # <<>>
    /\ recording_started
    /\ now - last_sound_time >= SILENCE_DURATION

\* The silent branch emits when the buffer is non-empty, speech has started
\* and the gap since the last sound exceeds SILENCE_DURATION.
ShouldEmit(now) ==
    /\ frames # <<>>
    /\ recording_started
    /\ now - last_sound_time > SILENCE_DURATION

\* process_audio leaves through `except Exception` / `finally`: the stream is
\* closed, the `async with` closes the websocket and connect_websocket loops.
LeaveProcessAudio ==
    /\ cpc' = "connect"
    /\ ws' = "none"

\* One turn of the capture loop: stream.read, classification, and for an
\* emitting silent frame create_wav_buffer and websocket.send.
ClientReadFrame ==
    /\ CanRead
    /\ is_recording
    /\ mic_pos < MaxReads
    /\ \E f \in FrameSet, read_ok \in BOOLEAN :
        IF ~read_ok
        THEN /\ read_failed' = TRUE
             /\ LeaveProcessAudio
             /\ UNCHANGED <<frames, last_sound_time, recording_started, data,
                            net_out, mic_pos, sent_n, run, heard_sound>>
        ELSE /\ read_failed' = FALSE
             /\ data' = f
             /\ mic_pos' = mic_pos + 1
             /\ heard_sound' = (heard_sound \/ TruePeak(f) >= SILENCE_THRESHOLD)
             /\ IF ~is_silent(f)
                THEN /\ Len(frames) < MaxFrames
                     /\ recording_started' = TRUE
                     /\ frames' = Append(frames, f)
                     /\ last_sound_time' = clock
                     /\ run' = Append(run, f)
                     /\ UNCHANGED <<cpc, ws, net_out, sent_n>>
                ELSE IF ShouldEmit(clock)
                THEN IF ws = "open"
                     THEN /\ sent_n < MaxUtterances
                          /\ net_out' = Append(net_out, create_wav_buffer(frames))
                          /\ sent_n' = sent_n + 1
                          /\ cpc' = AfterSend
                          /\ run' = <<>>
                          /\ UNCHANGED <<frames, last_sound_time, recording_started, ws>>
                     ELSE /\ LeaveProcessAudio
                          /\ UNCHANGED <<frames, last_sound_time, recording_started,
                                         net_out, sent_n, run>>
                ELSE UNCHANGED <<frames, last_sound_time, recording_started, cpc, ws,
                                 net_out, sent_n, run>>
    /\ UNCHANGED <<is_recording, net_in, clock, done_n>>
    /\ UNCHANGED <<serverVars, playVars>>

\* await websocket.recv() and what follows it: play_audio on a reply, the
\* inner except on a failure, then the buffer is cleared in both cases.
ClientRecv ==
    /\ cpc = "recv"
    /\ \/ /\ net_in # <<>>
          /\ net_in' = Tail(net_in)
       \/ /\ net_in = <<>>
          /\ ws = "closed"
          /\ UNCHANGED net_in
    /\ frames' = <<>>
    /\ recording_started' = FALSE
    /\ done_n' = done_n + 1
    /\ cpc' = "read"
    /\ UNCHANGED <<is_recording, last_sound_time, data, ws, net_out, clock, mic_pos,
                   sent_n, run, heard_sound, read_failed>>
    /\ UNCHANGED <<serverVars, playVars>>

\* The peer answers the oldest pending message.
PeerReply ==
    /\ ws = "open"
    /\ net_out # <<>>
    /\ net_out' = Tail(net_out)
    /\ \E r \in ReplySet : net_in' = Append(net_in, r)
    /\ UNCHANGED <<frames, is_recording, last_sound_time, recording_started, data, cpc,
                   ws, clock, mic_pos, sent_n, done_n, run, heard_sound, read_failed>>
    /\ UNCHANGED <<serverVars, playVars>>

\* The peer takes the oldest pending message and sends nothing back.
PeerNoReply ==
    /\ ws = "open"
    /\ net_out # <<>>
    /\ net_out' = Tail(net_out)
    /\ UNCHANGED <<frames, is_recording, last_sound_time, recording_started, data, cpc,
                   ws, net_in, clock, mic_pos, sent_n, done_n, run, heard_sound, read_failed>>
    /\ UNCHANGED <<serverVars, playVars>>

\* The connection is lost.
PeerDrop ==
    /\ ws = "open"
    /\ ws' = "closed"
    /\ UNCHANGED <<frames, is_recording, last_sound_time, recording_started, data, cpc,
                   net_out, net_in, clock, mic_pos, sent_n, done_n, run, heard_sound, read_failed>>
    /\ UNCHANGED <<serverVars, playVars>>

\* --------------------------------------------------------------- server
\* Python's None and a present value.
None == [some |-> FALSE, val |-> <<>>]

Some(v) == [some |-> TRUE, val |-> v]

\* `is not None` in place of truthiness: an empty value passes.
TruthyNotNone(o) == o.some

\* Python truthiness of an optional str / bytes.
Truthy(o) == o.some /\ o.val # <<>>

Whitespace == {9, 10, 11, 12, 13, 32}

\* str.strip()
RECURSIVE LStrip(_)
LStrip(t) == IF t # <<>> /\ Head(t) \in Whitespace THEN LStrip(Tail(t)) ELSE t

RECURSIVE RStrip(_)
RStrip(t) ==
    IF t # <<>> /\ t[Len(t)] \in Whitespace THEN RStrip(SubSeq(t, 1, Len(t) - 1)) ELSE t

Strip(t) == RStrip(LStrip(t))

\* s[-n:]
LastN(s, n) == SubSeq(s, Max(1, Len(s) - n + 1), Len(s))

\* What message k of session sid says: one word and the newline Whisper's
\* text format ends with.
Text(sid, k) == <<100 + 10 * sid + k, 10>>

\* The session a text (or a reply quoting it) comes from, 0 when it has none.
SessionOf(content) ==
    IF \E i \in DOMAIN content : content[i] >= 100
    THEN (content[CHOOSE i \in DOMAIN content : content[i] >= 100] - 100) \div 10
    ELSE 0

\* transcribe_audio: None on an exception, else Whisper's text.
TranscriptionOutcomes(sid, k) == {None, Some(<<>>), Some(<<32, 10>>), Some(Text(sid, k))}

\* client.chat.completions.create: raises, or yields a content (possibly
\* empty); a reply quotes what it answers.
ReplyTo(text) == <<82, 58>> \o text

GenOutcomes(text) ==
    {[raises |-> TRUE, content |-> <<>>],
     [raises |-> FALSE, content |-> <<>>],
     [raises |-> FALSE, content |-> ReplyTo(text)]}

\* text_to_speech: None on an exception, else response.content.
Mp3Of(text) == <<255>> \o text

TtsOutcomes(text) == {None, Some(<<>>), Some(Mp3Of(text))}

system_prompt == <<83>>

SystemMessage == [role |-> "system", content |-> system_prompt]

UserTurn(text) == [role |-> "user", content |-> text]

AssistantTurn(text) == [role |-> "assistant", content |-> text]

\* `if transcription:` without the strip.
TranscriptionUsableNoStrip(t) == t.some /\ t.val # <<>>

\* `if transcription and transcription.strip():`
TranscriptionUsable(t) == t.some /\ t.val # <<>> /\ Strip(t.val) # <<>>

\* A request built from the oldest turns of the history instead of the newest.
RequestMessagesOldest(history) ==
    <<SystemMessage>> \o SubSeq(history, 1, IF Len(history) < CONTEXT_TURNS
                                              THEN Len(history) ELSE CONTEXT_TURNS)

\* The messages of the request: the system prompt and conversation_history[-4:].
RequestMessages(history) == <<SystemMessage>> \o LastN(history, CONTEXT_TURNS)

\* A get_ai_response that puts the user turn into the request only and not
\* into the history.
get_ai_response_user_turn_not_kept(history, text, gen) ==
    LET messages == RequestMessages(Append(history, UserTurn(text)))
    IN  IF gen.raises
        THEN [history |-> history, messages |-> messages, result |-> None]
        ELSE [history |-> Append(history, AssistantTurn(gen.content)),
              messages |-> messages, result |-> Some(gen.content)]

\* A get_ai_response that takes its user turn back when the request raises.
get_ai_response_rollback(history, text, gen) ==
    LET h1 == Append(history, UserTurn(text))
        messages == RequestMessages(h1)
    IN  IF gen.raises
        THEN [history |-> history, messages |-> messages, result |-> None]
        ELSE [history |-> Append(h1, AssistantTurn(gen.content)),
              messages |-> messages, result |-> Some(gen.content)]

\* AudioServer.get_ai_response on history `history`: the user turn is appended
\* before the request; the assistant turn after it, unless the request raises.
get_ai_response(history, text, gen) ==
    LET h1 == Append(history, UserTurn(text))
        messages == RequestMessages(h1)
    IN  IF gen.raises
        THEN [history |-> h1, messages |-> messages, result |-> None]
        ELSE [history |-> Append(h1, AssistantTurn(gen.content)),
              messages |-> messages, result |-> Some(gen.content)]

NoCycle ==
    [sid |-> 0, k |-> 0, transcription |-> None, context |-> <<>>, reply |-> None,
     audio |-> None, sent |-> FALSE]

ServerInit ==
    /\ conversation_history = <<>>
    /\ sconn = [c \in Conns |-> 0]
    /\ next_sid = 0
    /\ msgs_n = 0
    /\ peer_open = [c \in Conns |-> FALSE]
    /\ inbox = [c \in Conns |-> <<>>]
    /\ handled = [c \in Conns |-> 0]
    /\ ok_n = [c \in Conns |-> 0]
    /\ outbox = [c \in Conns |-> <<>>]
    /\ cycle = NoCycle

\* websockets.serve starts self.process_audio, a bound method of the one
\* AudioServer, for a new connection.
ServerAccept(c) ==
    /\ sconn[c] = 0
    /\ next_sid < MaxSessions
    /\ next_sid' = next_sid + 1
    /\ sconn' = [sconn EXCEPT ![c] = next_sid + 1]
    /\ peer_open' = [peer_open EXCEPT ![c] = TRUE]
    /\ inbox' = [inbox EXCEPT ![c] = <<>>]
    /\ handled' = [handled EXCEPT ![c] = 0]
    /\ ok_n' = [ok_n EXCEPT ![c] = 0]
    /\ outbox' = [outbox EXCEPT ![c] = <<>>]
    /\ UNCHANGED <<conversation_history, msgs_n, cycle>>
    /\ UNCHANGED <<clientVars, playVars>>

\* The peer of connection c sends its next utterance.
ServerPeerSend(c) ==
    /\ sconn[c] # 0
    /\ peer_open[c]
    /\ msgs_n < MaxMsgs
    /\ msgs_n' = msgs_n + 1
    /\ inbox' = [inbox EXCEPT ![c] = Append(@, handled[c] + Len(inbox[c]) + 1)]
    /\ UNCHANGED <<conversation_history, sconn, next_sid, peer_open, handled, ok_n,
                   outbox, cycle>>
    /\ UNCHANGED <<clientVars, playVars>>

\* The peer of connection c closes it.
ServerPeerClose(c) ==
    /\ sconn[c] # 0
    /\ peer_open[c]
    /\ peer_open' = [peer_open EXCEPT ![c] = FALSE]
    /\ UNCHANGED <<conversation_history, sconn, next_sid, msgs_n, inbox, handled, ok_n,
                   outbox, cycle>>
    /\ UNCHANGED <<clientVars, playVars>>

\* A handler that lets the failure of a capability end process_audio.
SessionAfterRaising(sid, failed) == IF failed THEN 0 ELSE sid

\* The session after one message: transcribe_audio, get_ai_response and
\* text_to_speech turn their exceptions into None and the inner except of
\* process_audio takes the rest, so the iteration goes on.
SessionAfter(sid, failed) == sid

\* One turn of `async for message in websocket` in AudioServer.process_audio.
\* The three capability calls are blocking calls without an await, so the
\* turn runs without interleaving up to websocket.send, which raises into the
\* inner except when the peer has closed.
ServerHandleMessage(c) ==
    /\ sconn[c] # 0
    /\ inbox[c] # <<>>
    /\ Len(conversation_history) + 2 <= MaxHistory
    /\ LET k == Head(inbox[c])
           sid == sconn[c]
       IN \E tr \in TranscriptionOutcomes(sid, k) :
          IF ~TranscriptionUsable(tr)
          THEN /\ cycle' = [sid |-> sid, k |-> k, transcription |-> tr, context |-> <<>>,
                            reply |-> None, audio |-> None, sent |-> FALSE]
               /\ UNCHANGED <<conversation_history, ok_n, outbox>>
          ELSE \E gen \in GenOutcomes(tr.val) :
               LET r == get_ai_response(conversation_history, tr.val, gen)
               IN /\ conversation_history' = r.history
                  /\ ok_n' = [ok_n EXCEPT ![c] = IF Truthy(r.result) THEN @ + 1 ELSE @]
                  /\ IF ~Truthy(r.result)
                     THEN /\ cycle' = [sid |-> sid, k |-> k, transcription |-> tr,
                                       context |-> r.messages, reply |-> r.result,
                                       audio |-> None, sent |-> FALSE]
                          /\ UNCHANGED outbox
                     ELSE \E tts \in TtsOutcomes(r.result.val) :
                          LET sends == Truthy(tts) /\ peer_open[c]
                          IN /\ cycle' = [sid |-> sid, k |-> k, transcription |-> tr,
                                          context |-> r.messages, reply |-> r.result,
                                          audio |-> tts, sent |-> sends]
                             /\ outbox' = [outbox EXCEPT ![c] =
                                              IF sends THEN Append(@, tts.val) ELSE @]
    /\ inbox' = [inbox EXCEPT ![c] = Tail(@)]
    /\ handled' = [handled EXCEPT ![c] = @ + 1]
    /\ sconn' = [sconn EXCEPT ![c] = SessionAfter(@, ~cycle'.sent)]
    /\ UNCHANGED <<next_sid, msgs_n, peer_open>>
    /\ UNCHANGED <<clientVars, playVars>>

\* The iteration over the websocket ends once the peer has closed and the
\* messages received before that are handled; process_audio returns.
ServerSessionEnd(c) ==
    /\ sconn[c] # 0
    /\ ~peer_open[c]
    /\ inbox[c] = <<>>
    /\ sconn' = [sconn EXCEPT ![c] = 0]
    /\ UNCHANGED <<conversation_history, next_sid, msgs_n, peer_open, inbox, handled,
                   ok_n, outbox, cycle>>
    /\ UNCHANGED <<clientVars, playVars>>

\* ----------------------------------------------------------- play_audio
\* Replies play_audio can be given: one that sf.read cannot decode, and
\* decodable ones of up to MaxChunks chunks, at and around the chunk edges.
PlayLens ==
    {k * CHUNK_SIZE + r : k \in 0..(MaxChunks - 1), r \in {0, 1, CHUNK_SIZE - 1}}

PlayInputs ==
    {[decodable |-> FALSE, len |-> 0]} \cup {[decodable |-> TRUE, len |-> n] : n \in PlayLens}

PlayInit ==
    /\ play_pc = "idle"
    /\ audio_in = [decodable |-> FALSE, len |-> 0]
    /\ play_i = 0
    /\ written = 0
    /\ out_stream = "unbound"
    /\ play_error = "none"

\* Closing the stream on the success path only.
AfterExceptionNoFinally == "returned"

\* An exception in the try block is caught and printed; the finally clause
\* runs next.
AfterException == "finally_stop"

\* play_audio is called with a reply.
PlayCall ==
    /\ play_pc \in {"idle", "returned", "raised"}
    /\ \E a \in PlayInputs : audio_in' = a
    /\ play_pc' = "decode"
    /\ play_i' = 0
    /\ written' = 0
    /\ out_stream' = "unbound"
    /\ play_error' = "none"
    /\ UNCHANGED <<clientVars, serverVars>>

\* sf.read and astype.
PlayDecode ==
    /\ play_pc = "decode"
    /\ IF audio_in.decodable
       THEN play_pc' = "open" /\ UNCHANGED play_error
       ELSE play_pc' = AfterException /\ play_error' = "decode"
    /\ UNCHANGED <<audio_in, play_i, written, out_stream>>
    /\ UNCHANGED <<clientVars, serverVars>>

\* stream = self.p.open(...)
PlayOpen ==
    /\ play_pc = "open"
    /\ \E ok \in BOOLEAN :
        IF ok
        THEN /\ out_stream' = "open"
             /\ play_pc' = "write"
             /\ UNCHANGED play_error
        ELSE /\ play_pc' = AfterException
             /\ play_error' = "open"
             /\ UNCHANGED out_stream
    /\ UNCHANGED <<audio_in, play_i, written>>
    /\ UNCHANGED <<clientVars, serverVars>>

\* One turn of `for i in range(0, len(audio_array), chunk_size)`.
PlayWrite ==
    /\ play_pc = "write"
    /\ IF play_i >= audio_in.len
       THEN /\ play_pc' = "finally_stop"
            /\ UNCHANGED <<play_i, written, play_error>>
       ELSE \E ok \in BOOLEAN :
            IF ok
            THEN /\ written' = written + (IF audio_in.len - play_i < CHUNK_SIZE
                                           THEN audio_in.len - play_i ELSE CHUNK_SIZE)
                 /\ play_i' = play_i + CHUNK_SIZE
                 /\ UNCHANGED <<play_pc, play_error>>
            ELSE /\ play_pc' = AfterException
                 /\ play_error' = "write"
                 /\ UNCHANGED <<play_i, written>>
    /\ UNCHANGED <<audio_in, out_stream>>
    /\ UNCHANGED <<clientVars, serverVars>>

\* finally: stream.stop_stream().  With `stream` never assigned the name is
\* unbound and the UnboundLocalError leaves play_audio.
PlayFinallyStop ==
    /\ play_pc = "finally_stop"
    /\ IF out_stream = "unbound"
       THEN play_pc' = "raised" /\ UNCHANGED out_stream
       ELSE play_pc' = "finally_close" /\ out_stream' = "stopped"
    /\ UNCHANGED <<audio_in, play_i, written, play_error>>
    /\ UNCHANGED <<clientVars, serverVars>>

\* finally: stream.close(), and play_audio returns.
PlayFinallyClose ==
    /\ play_pc = "finally_close"
    /\ out_stream' = "closed"
    /\ play_pc' = "returned"
    /\ UNCHANGED <<audio_in, play_i, written, play_error>>
    /\ UNCHANGED <<clientVars, serverVars>>

NextPlay ==
    \/ PlayCall
    \/ PlayDecode
    \/ PlayOpen
    \/ PlayWrite
    \/ PlayFinallyStop
    \/ PlayFinallyClose

Init == ClientInit /\ ServerInit /\ PlayInit

NextServer ==
    \/ \E c \in Conns : ServerAccept(c)
    \/ \E c \in Conns : ServerPeerSend(c)
    \/ \E c \in Conns : ServerPeerClose(c)
    \/ \E c \in Conns : ServerHandleMessage(c)
    \/ \E c \in Conns : ServerSessionEnd(c)

SpecServer == Init /\ [][NextServer]_vars

SpecPlay == Init /\ [][NextPlay]_vars

NextClient ==
    \/ Tick
    \/ ClientConnect
    \/ ClientBackoff
    \/ ClientReadFrame
    \/ ClientRecv
    \/ PeerReply
    \/ PeerNoReply
    \/ PeerDrop

SpecClient == Init /\ [][NextClient]_vars

\* ------------------------------------------------------ claims, client
Last(s) == s[Len(s)]

IsSuffix(s, t) ==
    /\ Len(s) <= Len(t)
    /\ SubSeq(t, Len(t) - Len(s) + 1, Len(t)) = s

\* A step in which a frame was read from the microphone.
ReadStep == mic_pos' = mic_pos + 1

\* A step in which an utterance went out on the websocket.
SentStep == sent_n' = sent_n + 1

\* C1: as long as every frame read so far had a peak magnitude below
\* SILENCE_THRESHOLD, nothing has been sent on the websocket and the frame
\* buffer is empty.
C1_SilenceNeverEmits ==
    ~heard_sound => (frames = <<>> /\ sent_n = 0 /\ net_out = <<>> /\ cpc # "recv")

\* C1 witness: on an open connection several frames just below the threshold
\* have been read and more than SILENCE_DURATION has passed.
C1_Witness ==
    /\ ~heard_sound
    /\ ws = "open"
    /\ data = QuietFrame
    /\ mic_pos >= 3
    /\ clock - last_sound_time > SILENCE_DURATION

\* C2: an utterance is sent only in a step that reads a silent frame on a live
\* connection when more than SILENCE_DURATION has passed since the last
\* non-silent frame; its data ends with all non-silent frames of the run in
\* capture order; the run is then consumed, so it is sent once; and such a
\* silent frame after a run always sends it.
C2_OneUtterancePerRun ==
    [][ /\ SentStep =>
            /\ ReadStep
            /\ is_silent(data')
            /\ ws = "open"
            /\ clock - last_sound_time > SILENCE_DURATION
            /\ run # <<>>
            /\ IsSuffix(Join(run), Last(net_out').data)
            /\ run' = <<>>
        /\ ( /\ ReadStep
             /\ is_silent(data')
             /\ ws = "open"
             /\ run # <<>>
             /\ clock - last_sound_time > SILENCE_DURATION ) => SentStep
      ]_vars

\* C2 witness: on a live connection a run of two different non-silent frames
\* has just been sent, in capture order, on a silent frame.
C2_Witness ==
    /\ cpc = "recv"
    /\ ws = "open"
    /\ net_out # <<>>
    /\ Last(net_out).data = LoudFrameA \o LoudFrameB
    /\ data = QuietFrame

\* C8: on one connection the utterances sent exceed the completed receives
\* (reply received, or receive failed) by at most one.
C8_OneInFlight == sent_n - done_n <= 1

\* C8 witness: a second utterance is in flight after the first exchange on
\* the same connection completed.
C8_Witness == sent_n = 2 /\ done_n = 1 /\ cpc = "recv"

C10_DropReturnsToConnecting ==
    [][ (cpc = "recv" /\ ws = "closed" /\ net_in = <<>> /\ cpc' # "recv") =>
            /\ frames' = <<>>
            /\ ~recording_started'
            /\ cpc' \in {"connect", "backoff"}
      ]_vars

\* ------------------------------------------------------ claims, server
\* A step in which the handler of connection c got through one message.
HandledStep(c) == handled'[c] = handled[c] + 1

AllWhitespace(t) == \A i \in DOMAIN t : t[i] \in Whitespace

\* u1, a1, ..., un, an of session sid.
RECURSIVE ExpectedPairs(_, _)
ExpectedPairs(sid, n) ==
    IF n = 0 THEN <<>>
    ELSE ExpectedPairs(sid, n - 1)
         \o <<UserTurn(Text(sid, n)), AssistantTurn(ReplyTo(Text(sid, n)))>>

\* The session that wrote a turn is being served on some connection.
OriginOpen(turn) ==
    SessionOf(turn.content) # 0 => \E c \in Conns : sconn[c] = SessionOf(turn.content)

\* C3 as stated: the stored conversation history never holds more than
\* 4 turns.
C3_HistoryBounded == Len(conversation_history) <= CONTEXT_TURNS

\* C4 as stated: when a connection is accepted, the history holds no turn
\* written during a connection that has closed.
C4_NewConnectionStartsEmpty ==
    [][ \A c \in Conns : (sconn[c] = 0 /\ sconn'[c] # 0) =>
            \A i \in DOMAIN conversation_history' :
                OriginOpen(conversation_history'[i])
      ]_vars

\* C5 as stated: the request context built for a message of one connection
\* holds no turn written for another connection that is open at that time.
C5_SessionsShareNothing ==
    [][ \A c \in Conns : HandledStep(c) =>
            \A i \in DOMAIN cycle'.context : \A d \in Conns :
                (d # c /\ sconn[d] # 0) =>
                    SessionOf(cycle'.context[i].content) # sconn[d]
      ]_vars

\* C6: handling a message whose transcription failed, is empty or is only
\* whitespace leaves the conversation history as it was and sends nothing.
C6_EmptyTranscriptionNoEffect ==
    [][ \A c \in Conns :
            ( /\ HandledStep(c)
              /\ ~cycle'.transcription.some \/ AllWhitespace(cycle'.transcription.val) )
            => /\ conversation_history' = conversation_history
               /\ outbox' = outbox
               /\ ~cycle'.sent
      ]_vars

\* C6 witness: a whitespace-only transcription was handled on a session whose
\* history already held turns.
C6_Witness ==
    /\ cycle.k >= 2
    /\ cycle.transcription = Some(<<32, 10>>)
    /\ conversation_history # <<>>
    /\ \E c \in Conns : sconn[c] = cycle.sid /\ handled[c] = cycle.k

\* C7 as stated: a session all of whose k handled utterances were transcribed
\* and answered non-empty has the history u1, a1, ..., uk, ak.
C7_HistoryIsThePairs ==
    \A c \in Conns :
        (sconn[c] # 0 /\ handled[c] >= 1 /\ ok_n[c] = handled[c]) =>
            conversation_history = ExpectedPairs(sconn[c], handled[c])

\* ---------------------------------------------- claims, client connection
\* The event loop resumes the coroutine after asyncio.sleep(1) and lets a
\* connection attempt come to its end.
SpecClientFair ==
    Init /\ [][NextClient]_vars /\ WF_vars(ClientBackoff) /\ WF_vars(ClientConnect)

\* A step in which a connection is established and process_audio starts.
ConnectedStep == cpc = "connect" /\ cpc' = "read"

\* C11 as stated: whenever a connection is established the frame buffer is
\* empty.
C11_ReconnectStartsEmpty == [][ConnectedStep => frames' = <<>>]_vars

\* C12: the reconnect loop has no terminal state: from the backoff after a
\* failed attempt or a lost connection the client always comes to a new
\* connection attempt, and every attempt comes to its end.
C12_AlwaysAnotherAttempt ==
    /\ (cpc = "backoff") ~> (cpc = "connect")
    /\ (cpc = "connect") ~> (cpc \in {"read", "backoff"})
    /\ [](cpc \in {"connect", "backoff", "read", "recv"})

\* C12 witness: the client is backing off after a failed attempt that
\* followed a connection on which frames had been read.
C12_Witness == cpc = "backoff" /\ data # NoFrame /\ heard_sound

\* C13 as stated: the client comes to a connection attempt only out of the
\* backoff sleep.
C13_BackoffBeforeReconnect ==
    [][(cpc # "connect" /\ cpc' = "connect") => cpc = "backoff"]_vars

\* The peer has taken the utterance and sent nothing back, the connection is
\* up, and the client awaits the reply.
NoReplyComing == cpc = "recv" /\ ws = "open" /\ net_out = <<>> /\ net_in = <<>>

\* C14 as stated: a client whose utterance got no reply on a live connection
\* is not left waiting: it can take a step.
C14_NotLeftWaiting == NoReplyComing => ENABLED (ClientRecv \/ ClientReadFrame)

\* C19 as stated: a failed microphone read leaves the buffer, the recording
\* flag and the last-sound time as they were, and the client stays in the
\* capture loop of the same connection.
C19_ReadErrorIsTransient ==
    [][ (~read_failed /\ read_failed') =>
            /\ frames' = frames
            /\ recording_started' = recording_started
            /\ last_sound_time' = last_sound_time
            /\ cpc' = "read"
            /\ ws' = ws
      ]_vars

\* C20: reading a silent frame while recording, with a non-empty buffer and
\* a gap of at most SILENCE_DURATION since the last sound, changes neither
\* the buffer nor the recording flag nor the last-sound time, and sends
\* nothing.
C20_GracePeriodNoOp ==
    [][ ( /\ ReadStep
          /\ is_silent(data')
          /\ recording_started
          /\ frames # <<>>
          /\ clock - last_sound_time <= SILENCE_DURATION )
        => /\ frames' = frames
           /\ recording_started' = recording_started
           /\ last_sound_time' = last_sound_time
           /\ sent_n' = sent_n
           /\ net_out' = net_out
           /\ cpc' = "read"
      ]_vars

\* C20 witness: a silent frame has been read while recording, exactly
\* SILENCE_DURATION after the last sound, and the buffer is still there.
C20_Witness ==
    /\ cpc = "read"
    /\ recording_started
    /\ frames = <<LoudFrameB>>
    /\ data = QuietFrame
    /\ clock - last_sound_time = SILENCE_DURATION
    /\ sent_n = 0

\* ---------------------------------------------- claims, server pipeline
\* The cycle just logged asked for a reply (the transcription was usable).
AskedForReply == cycle'.context # <<>>

\* The cycle just logged got no reply text, or an empty one.
NoReplyText == ~cycle'.reply.some \/ cycle'.reply.val = <<>>

\* The cycle just logged got no audio, or empty audio.
NoAudio == ~cycle'.audio.some \/ cycle'.audio.val = <<>>

\* C15: when reply generation raises or yields an empty reply, nothing is
\* sent and the user turn of the utterance is in the history after the step.
C15_FailedReplyKeepsUserTurn ==
    [][ \A c \in Conns : (HandledStep(c) /\ AskedForReply /\ NoReplyText) =>
            /\ outbox' = outbox
            /\ ~cycle'.sent
            /\ Len(conversation_history') > Len(conversation_history)
            /\ conversation_history'[Len(conversation_history) + 1]
                   = UserTurn(cycle'.transcription.val)
            /\ SubSeq(conversation_history', 1, Len(conversation_history))
                   = conversation_history
      ]_vars

\* C15 witness: reply generation raised for the second message of a session
\* and the history ends with that message's user turn.
C15_Witness ==
    /\ cycle.k = 2
    /\ cycle.context # <<>>
    /\ ~cycle.reply.some
    /\ conversation_history # <<>>
    /\ Last(conversation_history) = UserTurn(Text(cycle.sid, 2))

\* C16: when synthesis fails or yields nothing for a generated reply, nothing
\* is sent and the history gains the user turn and the assistant turn of the
\* cycle.
C16_FailedSpeechKeepsBothTurns ==
    [][ \A c \in Conns : (HandledStep(c) /\ AskedForReply /\ ~NoReplyText /\ NoAudio) =>
            /\ outbox' = outbox
            /\ ~cycle'.sent
            /\ conversation_history' =
                   conversation_history
                   \o <<UserTurn(cycle'.transcription.val),
                        AssistantTurn(cycle'.reply.val)>>
      ]_vars

\* C16 witness: synthesis failed for a generated reply while the peer was
\* still there, and both turns of the cycle end the history.
C16_Witness ==
    /\ cycle.k >= 1
    /\ cycle.reply.some /\ cycle.reply.val # <<>>
    /\ ~cycle.audio.some
    /\ \E c \in Conns : sconn[c] = cycle.sid /\ peer_open[c] /\ outbox[c] = <<>>
    /\ Len(conversation_history) >= 2
    /\ Last(conversation_history) = AssistantTurn(cycle.reply.val)

\* C17: a message whose transcription, reply generation or synthesis failed
\* or gave nothing leaves the session in place, with the message taken off
\* the connection and the rest of the messages still to be handled.
C17_LocalFailureKeepsSession ==
    [][ \A c \in Conns :
            (HandledStep(c) /\ (~AskedForReply \/ NoReplyText \/ NoAudio)) =>
                /\ sconn[c] # 0
                /\ sconn'[c] = sconn[c]
                /\ inbox'[c] = Tail(inbox[c])
      ]_vars

\* C17 witness: on one session the first message failed before a reply was
\* generated and the second was then handled and answered.
C17_Witness ==
    \E c \in Conns :
        /\ sconn[c] # 0
        /\ cycle.sid = sconn[c]
        /\ cycle.k = 2
        /\ handled[c] = 2
        /\ ok_n[c] = 1
        /\ cycle.sent

\* ------------------------------------------------- claims, play_audio
\* C18: when play_audio has finished, by returning or by raising, no output
\* stream it opened is left open or merely stopped.
C18_OutputStreamReleased ==
    play_pc \in {"returned", "raised"} => out_stream \in {"unbound", "closed"}

\* C18 witness: a write raised after a first chunk had been written, and
\* play_audio has returned with the stream closed.
C18_Witness ==
    /\ play_pc = "returned"
    /\ play_error = "write"
    /\ written = CHUNK_SIZE
    /\ out_stream = "closed"

\* ------------------------------------------------ claims, classification
\* C21: every frame read is classified by its peak absolute magnitude: the
\* capture loop treats the frame as sound (appends it to the buffer) exactly
\* when that magnitude is SILENCE_THRESHOLD or more, and as silence exactly
\* when it is below, frames holding the sample -32768 (magnitude 32768)
\* included.
C21_SilentIffPeakBelow ==
    [][ ReadStep =>
            /\ is_silent(data') <=> (TruePeak(data') < SILENCE_THRESHOLD)
            /\ (frames' = Append(frames, data')) <=> (TruePeak(data') >= SILENCE_THRESHOLD)
      ]_vars

\* ------------------------------------------------ claims, request context
\* The history as it stands when the request of the cycle just logged is
\* built: the history before the step and the user turn of the utterance.
HistoryAtRequest ==
    Append(conversation_history, UserTurn(cycle'.transcription.val))

\* C22: the request context of every cycle that asks for a reply is the
\* system message followed by the newest turns of the history, in the
\* history's order: all of them when there are at most CONTEXT_TURNS,
\* otherwise the last CONTEXT_TURNS; its last entry is the user turn of the
\* utterance being handled.
C22_ContextIsSystemPlusRecentTurns ==
    [][ \A c \in Conns : (HandledStep(c) /\ AskedForReply) =>
            LET ctx == cycle'.context
                turns == Tail(ctx)
                h == HistoryAtRequest
            IN  /\ Head(ctx) = SystemMessage
                /\ Len(turns) <= CONTEXT_TURNS
                /\ Len(turns) = (IF Len(h) < CONTEXT_TURNS THEN Len(h) ELSE CONTEXT_TURNS)
                /\ \A i \in 1..Len(turns) : turns[i] = h[Len(h) - Len(turns) + i]
                /\ Last(ctx) = UserTurn(cycle'.transcription.val)
                /\ \A i \in 1..Len(turns) : turns[i].role # "system"
      ]_vars

\* C22 witness: a cycle whose request was cut to CONTEXT_TURNS turns: the
\* history is longer than the context, whose first turn is not the first of
\* the history and whose last turn is the user turn of the cycle.
C22_Witness ==
    /\ cycle.context # <<>>
    /\ Len(cycle.context) = CONTEXT_TURNS + 1
    /\ Len(conversation_history) > CONTEXT_TURNS
    /\ cycle.context[2] # conversation_history[1]
    /\ Last(cycle.context) = UserTurn(cycle.transcription.val)

\* ------------------------------------------------ claims, role alternation
\* C23: in every reachable state the history alternates strictly, starting
\* with a user turn: the odd positions hold user turns and the even positions
\* assistant turns, so no two neighbours have the same role.
C23_StrictAlternation ==
    \A i \in 1..Len(conversation_history) :
        conversation_history[i].role = (IF i % 2 = 1 THEN "user" ELSE "assistant")

\* C23 as amended: every turn of the history is a user or an assistant turn,
\* and every assistant turn comes right after a user turn; so the history
\* starts with a user turn and never holds two assistant turns in a row.  Two
\* user turns in a row are possible.
C23_AssistantFollowsUser ==
    \A i \in 1..Len(conversation_history) :
        /\ conversation_history[i].role \in {"user", "assistant"}
        /\ conversation_history[i].role = "assistant" =>
               (i > 1 /\ conversation_history[i - 1].role = "user")

\* C23 witness: a cycle whose reply generation failed was followed by one that
\* succeeded: two user turns in a row, then an assistant turn.
C23_Witness ==
    /\ Len(conversation_history) >= 3
    /\ \E i \in 1..(Len(conversation_history) - 2) :
        /\ conversation_history[i].role = "user"
        /\ conversation_history[i + 1].role = "user"
        /\ conversation_history[i + 2].role = "assistant"
    /\ cycle.reply.some

\* ------------------------------------------- claims, play_audio failures
\* C24: play_audio never ends by raising to its caller: whatever reply it
\* is given, one that cannot be decoded included, every call ends by
\* returning.
C24_PlayAudioNeverRaises == play_pc # "raised"

====
